---------------------------- MODULE Spec2Model ----------------------------
(***************************************************************************)
(* A model of user_engagement_metrics.py: the rate-limit aware requester   *)
(* safe_get, the paginated repository listing get_user_repos, the          *)
(* checkpoint store and the batch loop of __main__.                        *)
(*                                                                         *)
(* Six specifications share the module:                                    *)
(*   Spec        the batch loop over the three files, with process kills   *)
(*               and restarts; each fetcher call is one step whose outcome *)
(*               (a response, or an exception) the environment chooses;    *)
(*   SpecGet     one call of safe_get, request by request;                 *)
(*   SpecGetLive one call of safe_get, fair, against a server that reports *)
(*               the rate limit as used up finitely often;                 *)
(*   SpecRepos   one call of get_user_repos, page by page;                 *)
(*   SpecStarred one call of get_starred_repos_count;                      *)
(*   SpecStore   loads of and appends to the checkpoint file as raw text.  *)
(* Text is modelled as a sequence of one-character strings, a JSON value   *)
(* as a tagged record.  In the batch loop a file is a record               *)
(* [exists, lines] of terminated lines, as the program writes them; in     *)
(* SpecStore it is a record [exists, text].                                *)
(***************************************************************************)
EXTENDS Integers, Sequences, FiniteSets, TLC

VARIABLES
    \* the three files (src lines 29-31)
    usernames_file, checkpoint_file, output_file,
    \* the process running __main__
    pc, completed, usernames, idx,
    profile, repos, starred_count, orgs, pr_count, issue_count, commit_count,
    \* history of the current run, kept for the properties
    runs, fetched, requests, status, mark, errors, raised, errBodies, prevFailed,
    prevSettled,
    \* one call of safe_get
    gpc, max_retries, retries, response, now, sent, returned, slept, waits, seen, burst,
    \* one call of get_user_repos
    rpc, user_name, page, res, repositories, asked,
    \* the checkpoint file as the text it holds, loaded and appended to
    spc, store, loaded, loaded_before, appended, appends,
    \* one call of get_starred_repos_count
    tpc, user, sres, starred, sasked, slinks

fileVars == <<usernames_file, checkpoint_file, output_file>>
procVars == <<pc, completed, usernames, idx>>
localVars == <<profile, repos, starred_count, orgs, pr_count, issue_count, commit_count>>
prevVars == <<prevFailed, prevSettled>>
histVars == <<runs, fetched, requests, status, mark, errors, raised, errBodies, prevVars>>
getVars == <<gpc, max_retries, retries, response, now, sent, returned, slept, waits, seen,
             burst>>
reposVars == <<rpc, user_name, page, res, repositories, asked>>
storeVars == <<spc, store, loaded, loaded_before, appended, appends>>
starVars == <<tpc, user, sres, starred, sasked, slinks>>
vars == <<fileVars, procVars, localVars, histVars, getVars, reposVars, storeVars, starVars>>

----------------------------------------------------------------------------
(* Bounds of the model.                                                    *)

\* the number of times the script is started on the same files
MaxRuns == 2
\* the number of error-shaped bodies the server returns over all runs
MaxErrorBodies == 1
\* the largest max_retries a call of safe_get is given
MaxRetries == 2
\* the number of requests the server answers within one call of safe_get
MaxSends == 5
\* the number of full pages a repository listing has at most
MaxFullPages == 3

----------------------------------------------------------------------------
(* Text and files.                                                         *)

Range(s) == {s[i] : i \in DOMAIN s}

Whitespace == {" ", "\n"}

RECURSIVE LStrip(_)
LStrip(s) == IF s # <<>> /\ Head(s) \in Whitespace THEN LStrip(Tail(s)) ELSE s

RECURSIVE RStrip(_)
RStrip(s) ==
    IF s # <<>> /\ s[Len(s)] \in Whitespace
    THEN RStrip(SubSeq(s, 1, Len(s) - 1))
    ELSE s

\* lstrip in the place of strip
Strip_LeftOnly(s) == LStrip(s)

\* str.strip()
Strip(s) == RStrip(LStrip(s))

RECURSIVE StripLines(_)
\* [line.strip() for line in file if line.strip()]
StripLines(lines) ==
    IF lines = <<>> THEN <<>>
    ELSE IF Strip(Head(lines)) = <<>> THEN StripLines(Tail(lines))
    ELSE <<Strip(Head(lines))>> \o StripLines(Tail(lines))

NoFile == [exists |-> FALSE, lines |-> <<>>]

\* the file opened with "w": the line replaces what the file held
AppendLine_Truncating(file, line) == [exists |-> TRUE, lines |-> <<line>>]

\* open(path, "a").write(text + "\n")
AppendLine(file, line) == [exists |-> TRUE, lines |-> Append(file.lines, line)]

Users == {<<"a">>, <<"b">>}

----------------------------------------------------------------------------
(* The Link header of a paginated response, as the text the server sends.  *)

RECURSIVE Digits(_)
\* the decimal digits of a number
Digits(n) ==
    LET d == <<"0", "1", "2", "3", "4", "5", "6", "7", "8", "9">>
    IN  IF n < 10 THEN <<d[n + 1]>> ELSE Digits(n \div 10) \o <<d[(n % 10) + 1]>>

LinkUrl ==
    <<"h", "t", "t", "p", "s", ":", "/", "/", "a", "p", "i", ".", "g", "i",
      "t", "h", "u", "b", ".", "c", "o", "m", "/", "u", "s", "e", "r", "/",
      "1", "/", "s", "t", "a", "r", "r", "e", "d">>

PageIs ==
    <<"p", "a", "g", "e", "=">>
PerPageIs ==
    <<"p", "e", "r", "_", "p", "a", "g", "e", "=", "1">>

\* the query of a link: page alone, page after per_page, page before per_page
Queries == {"page", "per_page&page", "page&per_page"}

Query(form, n) ==
    IF form = "page" THEN PageIs \o Digits(n)
    ELSE IF form = "per_page&page" THEN PerPageIs \o <<"&">> \o PageIs \o Digits(n)
    ELSE PageIs \o Digits(n) \o <<"&">> \o PerPageIs

RelIs ==
    <<";", " ", "r", "e", "l", "=">>

Rel(name) == IF name = "last" THEN <<"l", "a", "s", "t">> ELSE <<"n", "e", "x", "t">>

\* <URL?QUERY>; rel="REL"
LinkValue(l) ==
    <<"<">> \o LinkUrl \o <<"?">> \o Query(l.query, l.page) \o <<">">>
        \o RelIs \o <<"\"">> \o Rel(l.rel) \o <<"\"">>

RECURSIVE LinkText(_)
\* the header: the link values, separated by ", "; no header reads as ""
LinkText(links) ==
    IF links = <<>> THEN <<>>
    ELSE IF Len(links) = 1 THEN LinkValue(links[1])
    ELSE LinkValue(Head(links)) \o <<",", " ">> \o LinkText(Tail(links))

\* s[i:].startswith(pat)
StartsAt(s, i, pat) ==
    i + Len(pat) - 1 <= Len(s) /\ SubSeq(s, i, i + Len(pat) - 1) = pat

\* pat in s
Contains(s, pat) == \E i \in DOMAIN s : StartsAt(s, i, pat)

RelLast ==
    <<"r", "e", "l", "=", "\"", "l", "a", "s", "t", "\"">>

\* the pattern page=(\d+)>; rel="last": what comes before and after the group
PatternHead == PageIs
PatternTail ==
    <<">", ";", " ", "r", "e", "l", "=", "\"", "l", "a", "s", "t", "\"">>

IsDigit(c) == c \in {"0", "1", "2", "3", "4", "5", "6", "7", "8", "9"}

RECURSIVE DigitRun(_, _)
\* \d+ is greedy: the number of digits from position i on
DigitRun(s, i) == IF i <= Len(s) /\ IsDigit(s[i]) THEN 1 + DigitRun(s, i + 1) ELSE 0

\* the pattern matches at position i
MatchAt(s, i) ==
    /\ StartsAt(s, i, PatternHead)
    /\ LET n == DigitRun(s, i + Len(PatternHead))
       IN  n >= 1 /\ StartsAt(s, i + Len(PatternHead) + n, PatternTail)

\* search(pattern, s) is not None
Matches(s) == \E i \in DOMAIN s : MatchAt(s, i)

\* match.group(1) of the leftmost match
Group1(s) ==
    LET at == {i \in DOMAIN s : MatchAt(s, i)}
        i == CHOOSE k \in at : \A j \in at : k <= j
        from == i + Len(PatternHead)
    IN  SubSeq(s, from, from + DigitRun(s, from) - 1)

RECURSIVE ParseInt(_)
\* int(digits)
ParseInt(ds) ==
    IF ds = <<>> THEN 0
    ELSE LET c == ds[Len(ds)]
             v == CHOOSE k \in 0..9 : Digits(k) = <<c>>
         IN  10 * ParseInt(SubSeq(ds, 1, Len(ds) - 1)) + v

----------------------------------------------------------------------------
(* JSON values and responses.                                              *)

JDict(d) == [kind |-> "dict", d |-> d]
JList(items) == [kind |-> "list", items |-> items]
NotJson == [kind |-> "notjson"]
None == [kind |-> "none"]

\* key in value: a key of a dict; an element of a list (the lists here hold
\* objects, never the string itself)
In(key, v) == v.kind = "dict" /\ key \in DOMAIN v.d

\* not value
Falsy(v) ==
    \/ v.kind = "dict" /\ DOMAIN v.d = {}
    \/ v.kind = "list" /\ v.items = <<>>
    \/ v.kind = "none"

\* len(value)
PyLen(v) == IF v.kind = "dict" THEN Cardinality(DOMAIN v.d) ELSE Len(v.items)

\* dict.get(key): <<value>>, or <<>> for None
Get(v, key) == IF key \in DOMAIN v.d THEN <<v.d[key]>> ELSE <<>>

\* the body GitHub sends with an error status
ErrorBody(msg) == JDict([message |-> msg, documentation_url |-> "https://docs.github.com/rest"])
NotFoundBody == ErrorBody("Not Found")
RateLimitBody == ErrorBody("API rate limit exceeded")

Resp(st, link, body) == [status_code |-> st, link |-> link, body |-> body]
ErrorResp == Resp(403, <<>>, RateLimitBody)
BadGateway == Resp(502, <<>>, NotJson)

ProfileBody(u) ==
    JDict([login |-> u, name |-> "N", public_repos |-> 1, followers |-> 1, following |-> 1])

ProfileResponses(u) ==
    {Resp(200, <<>>, ProfileBody(u)), Resp(404, <<>>, NotFoundBody), ErrorResp, BadGateway}
ReposResponses == {Resp(200, <<>>, JList(<<[id |-> 1]>>)), ErrorResp, BadGateway}
StarredResponses ==
    {Resp(200, LinkText(<<[query |-> "per_page&page", page |-> 3, rel |-> "last"]>>),
          JList(<<[id |-> 1]>>)),
     ErrorResp, BadGateway}
OrgsResponses ==
    {Resp(200, <<>>, JList(<<JDict([login |-> "acme"])>>)),
     Resp(200, <<>>, JList(<<JDict([id |-> 7])>>)),
     ErrorResp, BadGateway}
SearchResponses == {Resp(200, <<>>, JDict([total_count |-> 5])), ErrorResp, BadGateway}

IsErrorResp(r) == r.status_code >= 400


----------------------------------------------------------------------------
(* The fetchers, as functions of the response safe_get returned.           *)

\* response.json() raises ValueError on a body that is not JSON
JsonRaises(r) == r.body.kind = "notjson"

get_user_profile(r) == r.body

\* one page: the loop of get_user_repos on a listing that ends with this page
ReposOfPage(r) ==
    IF Falsy(r.body) \/ In("message", r.body) THEN <<>> ELSE r.body.items

\* if 'rel="last"' in link: match = search(...); if match:
HasLast(link) == Contains(link, RelLast) /\ Matches(link)

\* int(match.group(1))
LastPage(link) == ParseInt(Group1(link))

\* get_starred_repos_count reads the body only when the pattern found no page
StarredRaises(r) == ~HasLast(r.link) /\ JsonRaises(r)
get_starred_repos_count(r) ==
    IF HasLast(r.link) THEN LastPage(r.link) ELSE PyLen(r.body)

get_orgs(r) == r.body

search_user_contributions(r) ==
    IF In("total_count", r.body) THEN r.body.d.total_count ELSE 0

\* the checkpoint file never read: every run starts from the empty set
load_completed_usernames_Nothing(file) == {}

\* set(line.strip() for line in file if line.strip()), or set() without file
load_completed_usernames(file) ==
    IF file.exists THEN Range(StripLines(file.lines)) ELSE {}

append_completed_username(file, completed_username) ==
    AppendLine(file, completed_username)

\* json.dumps(user_result): the line of text that holds the record
Dumps(user_result) == [json |-> user_result]

append_result(file, user_result) == AppendLine(file, Dumps(user_result))

----------------------------------------------------------------------------
(* The batch loop of __main__.                                             *)

NoLocals ==
    /\ profile' = None
    /\ repos' = <<>>
    /\ starred_count' = 0
    /\ orgs' = None
    /\ pr_count' = 0
    /\ issue_count' = 0
    /\ commit_count' = 0

\* the list walked from its end
username_Reversed == usernames[Len(usernames) + 1 - idx]

\* for idx, username in enumerate(usernames)
username == usernames[idx]

InLoop == pc = "loop" /\ idx <= Len(usernames)

\* the skip test left out
ShouldSkip_Never(u, done) == FALSE

\* if username in completed: continue
ShouldSkip(u, done) == u \in done

\* "message" in profile and profile["message"] == "Not Found"
IsNotFound(p) == In("message", p) /\ p.d.message = "Not Found"

\* an error-shaped body may be drawn while the budget lasts
Allowed(r) == r = ErrorResp => errBodies < MaxErrorBodies

\* what the properties remember of a request and its response
Note(endpoint, r, before) ==
    /\ requests' = Append(IF endpoint = "profile" THEN <<>> ELSE requests,
                           <<username, endpoint>>)
    /\ errors' = IF IsErrorResp(r) /\ ~IsNotFound(r.body)
                 THEN before \cup {endpoint} ELSE before
    /\ errBodies' = IF r = ErrorResp THEN errBodies + 1 ELSE errBodies

\* requests.get raised (connection error, timeout): no response
NoteRaise(endpoint, before) ==
    /\ requests' = Append(IF endpoint = "profile" THEN <<>> ELSE requests,
                           <<username, endpoint>>)
    /\ errors' = before
    /\ UNCHANGED errBodies

Settle(state) == status' = [status EXCEPT ![idx] = state]

\* an except clause without its continue: control reaches the last statement
Except_FallThrough ==
    /\ pc' = "checkpoint"
    /\ UNCHANGED <<fileVars, completed, usernames, idx, status, localVars>>

\* the two except clauses: print, continue
Except ==
    /\ pc' = "loop"
    /\ idx' = idx + 1
    /\ Settle("Failed")
    /\ NoLocals
    /\ UNCHANGED <<fileVars, completed, usernames>>

\* an exception no clause catches ends the process with a traceback
Uncaught ==
    /\ pc' = "aborted"
    /\ UNCHANGED <<fileVars, completed, usernames, idx, localVars, status>>

\* except requests.RequestException / except (KeyError, ValueError)
Caught(exception) == exception \in {"RequestException", "KeyError", "ValueError"}

\* an exception raised inside the try block
Raise(exception) ==
    /\ raised' = exception
    /\ IF Caught(exception) THEN Except ELSE Uncaught

\* the next statement of the try block
Goto(label) ==
    /\ pc' = label
    /\ UNCHANGED <<fileVars, completed, usernames, idx, status>>

Load ==
    /\ pc = "start"
    /\ runs < MaxRuns
    /\ completed' = load_completed_usernames(checkpoint_file)
    /\ usernames' = StripLines(usernames_file.lines)
    /\ idx' = 1
    /\ pc' = "loop"
    /\ NoLocals
    /\ runs' = runs + 1
    /\ fetched' = <<>>
    /\ requests' = <<>>
    /\ status' = [i \in 1..Len(usernames') |-> "Pending"]
    /\ mark' = [runCk |-> Len(checkpoint_file.lines), runOut |-> Len(output_file.lines),
                itCk |-> Len(checkpoint_file.lines), itOut |-> Len(output_file.lines)]
    /\ errors' = {}
    /\ raised' = ""
    /\ prevFailed' = {usernames[i] : i \in {j \in DOMAIN status : status[j] = "Failed"}}
    /\ prevSettled' = (runs >= 1 /\ \A i \in DOMAIN status :
                                       status[i] \in {"Skipped", "NotFound", "Completed"})
    /\ UNCHANGED <<fileVars, errBodies, getVars, reposVars, storeVars, starVars>>

Skip ==
    /\ InLoop
    /\ ShouldSkip(username, completed)
    /\ idx' = idx + 1
    /\ Settle("Skipped")
    /\ mark' = [mark EXCEPT !.itCk = Len(checkpoint_file.lines),
                            !.itOut = Len(output_file.lines)]
    /\ requests' = <<>>
    /\ errors' = {}
    /\ raised' = ""
    /\ UNCHANGED <<fileVars, pc, completed, usernames, localVars, runs, fetched, errBodies,
                   prevVars, getVars, reposVars, storeVars, starVars>>

Finish ==
    /\ pc = "loop"
    /\ idx > Len(usernames)
    /\ pc' = "done"
    /\ UNCHANGED <<fileVars, completed, usernames, idx, localVars, histVars, getVars, reposVars, storeVars, starVars>>

\* the iteration starts: where the files stood, and whose profile is asked for
Begin ==
    /\ mark' = [mark EXCEPT !.itCk = Len(checkpoint_file.lines),
                            !.itOut = Len(output_file.lines)]
    /\ fetched' = Append(fetched, username)

FetchProfile ==
    /\ InLoop
    /\ ~ShouldSkip(username, completed)
    /\ Begin
    /\ \/ NoteRaise("profile", {}) /\ Raise("RequestException")
       \/ \E r \in ProfileResponses(username) :
            /\ Allowed(r)
            /\ Note("profile", r, {})
            /\ IF JsonRaises(r) THEN Raise("ValueError")
               ELSE /\ raised' = ""
                    /\ profile' = get_user_profile(r)
                    /\ Goto(IF IsNotFound(profile') THEN "not_found" ELSE "repos")
                    /\ UNCHANGED <<repos, starred_count, orgs, pr_count, issue_count,
                                   commit_count>>
    /\ UNCHANGED <<runs, prevVars, getVars, reposVars, storeVars, starVars>>

\* the not-found branch without its continue: the fetches go on
CheckpointNotFound_FallThrough ==
    /\ pc = "not_found"
    /\ checkpoint_file' = append_completed_username(checkpoint_file, username)
    /\ pc' = "repos"
    /\ UNCHANGED <<usernames_file, output_file, completed, usernames, idx, localVars,
                   histVars, getVars, reposVars, storeVars, starVars>>

\* print, append_completed_username(username), continue
CheckpointNotFound ==
    /\ pc = "not_found"
    /\ checkpoint_file' = append_completed_username(checkpoint_file, username)
    /\ pc' = "loop"
    /\ idx' = idx + 1
    /\ Settle("NotFound")
    /\ NoLocals
    /\ UNCHANGED <<usernames_file, output_file, completed, usernames, runs, fetched,
                   requests, mark, errors, raised, errBodies, prevVars,
                   getVars, reposVars, storeVars, starVars>>

FetchRepos ==
    /\ pc = "repos"
    /\ \/ NoteRaise("repos", errors) /\ Raise("RequestException")
       \/ \E r \in ReposResponses :
            /\ Allowed(r)
            /\ Note("repos", r, errors)
            /\ IF JsonRaises(r) THEN Raise("ValueError")
               ELSE /\ raised' = ""
                    /\ repos' = ReposOfPage(r)
                    /\ Goto("starred")
                    /\ UNCHANGED <<profile, starred_count, orgs, pr_count, issue_count,
                                   commit_count>>
    /\ UNCHANGED <<runs, fetched, mark, prevVars, getVars, reposVars, storeVars, starVars>>

FetchStarred ==
    /\ pc = "starred"
    /\ \/ NoteRaise("starred", errors) /\ Raise("RequestException")
       \/ \E r \in StarredResponses :
            /\ Allowed(r)
            /\ Note("starred", r, errors)
            /\ IF StarredRaises(r) THEN Raise("ValueError")
               ELSE /\ raised' = ""
                    /\ starred_count' = get_starred_repos_count(r)
                    /\ Goto("orgs")
                    /\ UNCHANGED <<profile, repos, orgs, pr_count, issue_count, commit_count>>
    /\ UNCHANGED <<runs, fetched, mark, prevVars, getVars, reposVars, storeVars, starVars>>

FetchOrgs ==
    /\ pc = "orgs"
    /\ \/ NoteRaise("orgs", errors) /\ Raise("RequestException")
       \/ \E r \in OrgsResponses :
            /\ Allowed(r)
            /\ Note("orgs", r, errors)
            /\ IF JsonRaises(r) THEN Raise("ValueError")
               ELSE /\ raised' = ""
                    /\ orgs' = get_orgs(r)
                    /\ Goto("pr")
                    /\ UNCHANGED <<profile, repos, starred_count, pr_count, issue_count,
                                   commit_count>>
    /\ UNCHANGED <<runs, fetched, mark, prevVars, getVars, reposVars, storeVars, starVars>>

SearchPr ==
    /\ pc = "pr"
    /\ \/ NoteRaise("pr", errors) /\ Raise("RequestException")
       \/ \E r \in SearchResponses :
            /\ Allowed(r)
            /\ Note("pr", r, errors)
            /\ IF JsonRaises(r) THEN Raise("ValueError")
               ELSE /\ raised' = ""
                    /\ pr_count' = search_user_contributions(r)
                    /\ Goto("issue")
                    /\ UNCHANGED <<profile, repos, starred_count, orgs, issue_count,
                                   commit_count>>
    /\ UNCHANGED <<runs, fetched, mark, prevVars, getVars, reposVars, storeVars, starVars>>

SearchIssue ==
    /\ pc = "issue"
    /\ \/ NoteRaise("issue", errors) /\ Raise("RequestException")
       \/ \E r \in SearchResponses :
            /\ Allowed(r)
            /\ Note("issue", r, errors)
            /\ IF JsonRaises(r) THEN Raise("ValueError")
               ELSE /\ raised' = ""
                    /\ issue_count' = search_user_contributions(r)
                    /\ Goto("commit")
                    /\ UNCHANGED <<profile, repos, starred_count, orgs, pr_count,
                                   commit_count>>
    /\ UNCHANGED <<runs, fetched, mark, prevVars, getVars, reposVars, storeVars, starVars>>

SearchCommit ==
    /\ pc = "commit"
    /\ \/ NoteRaise("commit", errors) /\ Raise("RequestException")
       \/ \E r \in SearchResponses :
            /\ Allowed(r)
            /\ Note("commit", r, errors)
            /\ IF JsonRaises(r) THEN Raise("ValueError")
               ELSE /\ raised' = ""
                    /\ commit_count' = search_user_contributions(r)
                    /\ Goto("result")
                    /\ UNCHANGED <<profile, repos, starred_count, orgs, pr_count,
                                   issue_count>>
    /\ UNCHANGED <<runs, fetched, mark, prevVars, getVars, reposVars, storeVars, starVars>>

\* [org["login"] for org in orgs]: a list yields its objects, a dict its keys
\* (strings), and "..."["login"] is a TypeError
OrgsTypeError == orgs.kind = "dict" /\ DOMAIN orgs.d # {}
OrgsKeyError ==
    orgs.kind = "list" /\ \E i \in DOMAIN orgs.items : ~In("login", orgs.items[i])
Logins == IF orgs.kind = "list"
          THEN [i \in DOMAIN orgs.items |-> orgs.items[i].d.login]
          ELSE <<>>

Result ==
    [username |-> username,
     name |-> Get(profile, "name"),
     public_repos |-> Get(profile, "public_repos"),
     followers |-> Get(profile, "followers"),
     following |-> Get(profile, "following"),
     organizations |-> Logins,
     starred_repos |-> starred_count,
     total_public_prs |-> pr_count,
     total_public_issues |-> issue_count,
     total_public_commits |-> commit_count]

\* the loop body without append_result: the checkpoint is written alone
AssembleAndAppend_NoRecord ==
    /\ pc = "result"
    /\ raised' = ""
    /\ pc' = "checkpoint"
    /\ UNCHANGED <<fileVars, completed, usernames, idx, localVars, status>>
    /\ UNCHANGED <<runs, fetched, requests, mark, errors, errBodies, prevVars, getVars,
                   reposVars, storeVars, starVars>>

\* result = {...}; append_result(result)
AssembleAndAppend ==
    /\ pc = "result"
    /\ IF OrgsTypeError THEN Raise("TypeError")
       ELSE IF OrgsKeyError THEN Raise("KeyError")
       ELSE /\ raised' = ""
            /\ output_file' = append_result(output_file, Result)
            /\ pc' = "checkpoint"
            /\ UNCHANGED <<usernames_file, checkpoint_file, completed, usernames, idx,
                           localVars, status>>
    /\ UNCHANGED <<runs, fetched, requests, mark, errors, errBodies, prevVars, getVars,
                   reposVars, storeVars, starVars>>

\* append_completed_username(username), the last statement of the loop body
AppendCompleted ==
    /\ pc = "checkpoint"
    /\ checkpoint_file' = append_completed_username(checkpoint_file, username)
    /\ pc' = "loop"
    /\ idx' = idx + 1
    /\ Settle("Completed")
    /\ NoLocals
    /\ UNCHANGED <<usernames_file, output_file, completed, usernames, runs, fetched,
                   requests, mark, errors, raised, errBodies, prevVars,
                   getVars, reposVars, storeVars, starVars>>

Running == pc \notin {"start", "done", "aborted"}

\* the process is killed from outside, at any statement
Kill ==
    /\ Running
    /\ runs < MaxRuns
    /\ pc' = "start"
    /\ NoLocals
    /\ UNCHANGED <<fileVars, completed, usernames, idx, histVars, getVars, reposVars, storeVars, starVars>>

\* the script has ended and is started again on the same files
Restart ==
    /\ pc \in {"done", "aborted"}
    /\ runs < MaxRuns
    /\ pc' = "start"
    /\ NoLocals
    /\ UNCHANGED <<fileVars, completed, usernames, idx, histVars, getVars, reposVars, storeVars, starVars>>

\* usernames.txt: one identifier per line
InputFiles ==
    {[exists |-> TRUE, lines |-> l] :
        l \in {<< <<"a">> >>, << <<"a">>, <<"b">> >>, << <<"b">>, <<>>, <<"a">> >>,
               << <<"a">>, <<"a">> >>}}

\* a checkpoint file left by earlier runs, or edited by hand
CheckpointFiles ==
    {NoFile,
     [exists |-> TRUE, lines |-> <<<<"a">>>>],
     [exists |-> TRUE, lines |-> << <<" ", "b", " ">>, <<>> >>]}

NoSleep == [kind |-> "none", for |-> 0, from |-> 0, reset |-> 0]

GetIdle ==
    /\ gpc = "idle" /\ max_retries = 0 /\ retries = 0 /\ response = None /\ now = 0
    /\ sent = 0 /\ returned = None /\ slept = NoSleep /\ waits = 0 /\ seen = {}
    /\ burst = 0

ReposIdle ==
    /\ rpc = "idle" /\ user_name = <<>> /\ page = 0 /\ res = None
    /\ repositories = <<>> /\ asked = <<>>

StoreIdle ==
    /\ spc = "idle" /\ store = [exists |-> FALSE, text |-> <<>>] /\ loaded = {}
    /\ loaded_before = {} /\ appended = <<>> /\ appends = 0

StarIdle ==
    /\ tpc = "idle" /\ user = <<>> /\ sres = None /\ starred = 0 /\ sasked = <<>>
    /\ slinks = <<>>

MainIdle ==
    /\ usernames_file = NoFile /\ checkpoint_file = NoFile /\ output_file = NoFile
    /\ pc = "idle" /\ completed = {} /\ usernames = <<>> /\ idx = 0
    /\ profile = None /\ repos = <<>> /\ starred_count = 0 /\ orgs = None
    /\ pr_count = 0 /\ issue_count = 0 /\ commit_count = 0
    /\ runs = 0 /\ fetched = <<>> /\ requests = <<>> /\ status = <<>>
    /\ mark = [runCk |-> 0, runOut |-> 0, itCk |-> 0, itOut |-> 0]
    /\ errors = {} /\ raised = "" /\ errBodies = 0 /\ prevFailed = {}
    /\ prevSettled = FALSE

Init ==
    /\ usernames_file \in InputFiles
    /\ checkpoint_file \in CheckpointFiles
    /\ output_file = NoFile
    /\ pc = "start" /\ completed = {} /\ usernames = <<>> /\ idx = 0
    /\ profile = None /\ repos = <<>> /\ starred_count = 0 /\ orgs = None
    /\ pr_count = 0 /\ issue_count = 0 /\ commit_count = 0
    /\ runs = 0 /\ fetched = <<>> /\ requests = <<>> /\ status = <<>>
    /\ mark = [runCk |-> 0, runOut |-> 0, itCk |-> 0, itOut |-> 0]
    /\ errors = {} /\ raised = "" /\ errBodies = 0 /\ prevFailed = {}
    /\ prevSettled = FALSE
    /\ GetIdle
    /\ ReposIdle
    /\ StoreIdle
    /\ StarIdle

Next ==
    \/ Load
    \/ Skip
    \/ Finish
    \/ FetchProfile
    \/ CheckpointNotFound
    \/ FetchRepos
    \/ FetchStarred
    \/ FetchOrgs
    \/ SearchPr
    \/ SearchIssue
    \/ SearchCommit
    \/ AssembleAndAppend
    \/ AppendCompleted
    \/ Kill
    \/ Restart

Spec == Init /\ [][Next]_vars

----------------------------------------------------------------------------
(* What the files hold, and what the current run and iteration added.      *)

UniqueInput ==
    LET l == StripLines(usernames_file.lines)
    IN  \A i, j \in DOMAIN l : l[i] = l[j] => i = j

RecordIds(lines) == {lines[i].json.username : i \in DOMAIN lines}

From(file, n) == SubSeq(file.lines, n + 1, Len(file.lines))

RunCheckpoints == From(checkpoint_file, mark.runCk)
RunRecords == From(output_file, mark.runOut)
IterCheckpoints == From(checkpoint_file, mark.itCk)
IterRecords == From(output_file, mark.itOut)

AtRest == pc \in {"start", "loop", "done", "aborted"}

----------------------------------------------------------------------------
(* Properties of the batch loop.                                           *)

\* C1: between iterations and between runs, every identifier that has a
\* record in the output file is also a line of the checkpoint file.
C1_RecordsAreCheckpointed ==
    AtRest => RecordIds(output_file.lines) \subseteq load_completed_usernames(checkpoint_file)

\* C2: an identifier of the loaded checkpoint set gets no request and no line
\* in either file during the run; every other identifier the loop has passed
\* had its profile fetched.
C2_CheckpointedAreSkipped ==
    /\ \A u \in completed :
         /\ u \notin Range(fetched)
         /\ \A k \in DOMAIN requests : requests[k][1] # u
         /\ u \notin Range(RunCheckpoints)
         /\ u \notin RecordIds(RunRecords)
    /\ \A i \in DOMAIN usernames : i < idx =>
         IF usernames[i] \in completed
         THEN status[i] = "Skipped"
         ELSE status[i] \notin {"Skipped", "Pending"} /\ usernames[i] \in Range(fetched)

\* two identifiers, the first checkpointed: only the second was processed
C2_Witness ==
    /\ pc = "done"
    /\ usernames = << <<"a">>, <<"b">> >>
    /\ completed = {<<"a">>}
    /\ fetched = << <<"b">> >>
    /\ status[1] = "Skipped"
    /\ status[2] = "Completed"

\* C3: once the profile body says "Not Found", the process stands before the
\* checkpoint append with the profile request as the only request and nothing
\* written; its next step appends the identifier to the checkpoint file, writes
\* no record, issues no request, and goes to the next identifier.
C3_NotFoundIsCheckpointedOnly ==
    /\ []((/\ profile.kind = "dict"
            /\ "message" \in DOMAIN profile.d
            /\ profile.d.message = "Not Found") =>
            /\ pc = "not_found"
            /\ requests = << <<username, "profile">> >>
            /\ IterCheckpoints = <<>>
            /\ IterRecords = <<>>)
    /\ [][pc = "not_found" =>
            \/ pc' = "start" /\ UNCHANGED fileVars
            \/ /\ checkpoint_file' = AppendLine(checkpoint_file, username)
               /\ output_file' = output_file
               /\ requests' = requests
               /\ fetched' = fetched
               /\ pc' = "loop"
               /\ idx' = idx + 1
               /\ status'[idx] = "NotFound"]_vars

C3_Witness ==
    /\ pc = "loop"
    /\ idx > 1
    /\ status[idx - 1] = "NotFound"
    /\ requests = << <<usernames[idx - 1], "profile">> >>
    /\ IterCheckpoints = <<usernames[idx - 1]>>
    /\ IterRecords = <<>>
    /\ idx <= Len(usernames)

\* C4: after a RequestException, KeyError or ValueError the iteration has ended
\* Failed with nothing appended to either file and the loop stands at the next
\* identifier; with unique identifiers a Failed identifier has no line of this
\* run in either file, and one that Failed in the previous run is processed
\* again when the loop of this run passes it.
C4_FailedIsNotCheckpointed ==
    /\ raised \in {"RequestException", "KeyError", "ValueError"} =>
         /\ pc \in {"loop", "done", "start"}
         /\ idx > 1
         /\ status[idx - 1] = "Failed"
         /\ IterCheckpoints = <<>>
         /\ IterRecords = <<>>
    /\ UniqueInput =>
         \A i \in DOMAIN usernames :
           /\ status[i] = "Failed" =>
                /\ usernames[i] \notin Range(RunCheckpoints)
                /\ usernames[i] \notin RecordIds(RunRecords)
           /\ i < idx /\ usernames[i] \in prevFailed =>
                /\ status[i] \notin {"Skipped", "Pending"}
                /\ usernames[i] \in Range(fetched)

\* an identifier that Failed in the first run is Completed by the second
C4_Witness ==
    /\ runs = 2
    /\ UniqueInput
    /\ \E i \in DOMAIN usernames :
         /\ usernames[i] \in prevFailed
         /\ status[i] = "Completed"
         /\ usernames[i] \in RecordIds(RunRecords)

\* C5: the loop never ends on one identifier while later identifiers that
\* are not checkpointed are still to be processed.
C5_LoopNeverAborts ==
    ~(pc = "aborted" /\ \E j \in (idx + 1)..Len(usernames) : usernames[j] \notin completed)

\* C6: a record appended in the current iteration was built from fetches
\* none of which ended with an error response.
C6_NoRecordFromErrorResponses ==
    IterRecords # <<>> => errors = {}

\* C9: with unique identifiers in the input, no identifier has two records
\* in the output file.
C9_OneRecordPerIdentifier ==
    UniqueInput =>
      \A i, j \in DOMAIN output_file.lines :
        output_file.lines[i].json.username = output_file.lines[j].json.username => i = j

----------------------------------------------------------------------------
(* One call of safe_get(url, max_retries).  Time is in whole seconds; a    *)
(* header is <<>> when absent and <<n>> when it reads as the integer n.    *)

Max(x, y) == IF x >= y THEN x ELSE y

RECURSIVE Pow2(_)
Pow2(n) == IF n = 0 THEN 1 ELSE 2 * Pow2(n - 1)

\* int(response.headers.get("X-RateLimit-Remaining", "1"))
Remaining(r) == IF r.remaining = <<>> THEN 1 ELSE r.remaining[1]

\* int(response.headers.get("X-RateLimit-Reset", time.time() + 60))
ResetTime(r, t) == IF r.reset = <<>> THEN t + 60 ELSE r.reset[1]

\* the sleep without the two seconds of margin
SleepForNoMargin(reset_time, t) == Max(reset_time - t, 0)

\* max(reset_time - time.time(), 0) + 2
SleepFor(reset_time, t) == Max(reset_time - t, 0) + 2

\* response.status_code == 403 and remaining == 0
RateLimited(r) == r.status_code = 403 /\ Remaining(r) = 0

\* every error status retried, client errors too
Retryable_AnyError(r) == r.status_code >= 400

\* response.status_code in (500, 502, 503, 504) or response.status_code == 403
Retryable(r) == r.status_code \in {500, 502, 503, 504} \/ r.status_code = 403

\* the test off by one: one retry more than max_retries
CanRetry_OneMore(n, m) == n <= m

\* the retry test left out: a retryable response is always retried
CanRetry_Always(n, m) == TRUE

\* if retries < max_retries
CanRetry(n, m) == n < m

\* random.uniform(0, 1), to the second
Jitter == {0, 1}

\* time.sleep may return late
Overshoot == {0, 1}

Statuses == {200, 404, 403, 500, 502, 503, 504}

GetResponses(t, n) ==
    {[status_code |-> st, remaining |-> <<>>, reset |-> <<>>, id |-> n] :
        st \in Statuses \ {403}}
    \cup
    {[status_code |-> 403, remaining |-> rem, reset |-> rst, id |-> n] :
        rem \in {<<>>, <<0>>, <<1>>}, rst \in {<<>>, <<t - 1>>, <<t + 3>>}}

Class(r) ==
    IF RateLimited(r) THEN "exhausted"
    ELSE IF Retryable(r) THEN "transient"
    ELSE "other"

\* response = requests.get(url, headers, params, timeout=10)
Send ==
    /\ gpc = "send"
    /\ sent < MaxSends
    /\ \E r \in GetResponses(now, sent + 1) :
         /\ response' = r
         /\ seen' = seen \cup {Class(r)}
    /\ sent' = sent + 1
    /\ burst' = burst + 1
    /\ gpc' = "got"
    /\ UNCHANGED <<max_retries, retries, now, returned, slept, waits>>
    /\ UNCHANGED <<fileVars, procVars, localVars, histVars, reposVars, storeVars, starVars>>

\* requests.get raises (connection error, timeout); safe_get lets it through
SendRaises ==
    /\ gpc = "send"
    /\ sent < MaxSends
    /\ sent' = sent + 1
    /\ burst' = burst + 1
    /\ gpc' = "raised"
    /\ UNCHANGED <<max_retries, retries, response, now, returned, slept, waits, seen>>
    /\ UNCHANGED <<fileVars, procVars, localVars, histVars, reposVars, storeVars, starVars>>

\* the rate limit is used up: sleep until the reset, retries = 0, continue
RateLimitWait ==
    /\ gpc = "got"
    /\ RateLimited(response)
    /\ \E late \in Overshoot :
         LET reset_time == ResetTime(response, now)
             sleep_for == SleepFor(reset_time, now)
         IN  /\ now' = now + sleep_for + late
             /\ slept' = [kind |-> "rate", for |-> sleep_for, from |-> now,
                          reset |-> reset_time]
    /\ retries' = 0
    /\ waits' = waits + 1
    /\ burst' = 0
    /\ gpc' = "send"
    /\ UNCHANGED <<max_retries, response, sent, returned, seen>>
    /\ UNCHANGED <<fileVars, procVars, localVars, histVars, reposVars, storeVars, starVars>>

\* a 5xx or another 403 with retries left: back off, retries += 1, continue
Backoff ==
    /\ gpc = "got"
    /\ ~RateLimited(response)
    /\ Retryable(response)
    /\ CanRetry(retries, max_retries)
    /\ \E j \in Jitter :
         LET wait == Pow2(retries) + j
         IN  /\ now' = now + wait
             /\ slept' = [kind |-> "backoff", for |-> wait, from |-> now, reset |-> 0]
    /\ retries' = retries + 1
    /\ gpc' = "send"
    /\ UNCHANGED <<max_retries, response, sent, returned, waits, seen, burst>>
    /\ UNCHANGED <<fileVars, procVars, localVars, histVars, reposVars, storeVars, starVars>>

\* a 5xx or another 403 with no retries left: print, return response
ReturnExhausted ==
    /\ gpc = "got"
    /\ ~RateLimited(response)
    /\ Retryable(response)
    /\ ~CanRetry(retries, max_retries)
    /\ returned' = response
    /\ gpc' = "returned"
    /\ UNCHANGED <<max_retries, retries, response, now, sent, slept, waits, seen, burst>>
    /\ UNCHANGED <<fileVars, procVars, localVars, histVars, reposVars, storeVars, starVars>>

\* any other status: return response
ReturnOther ==
    /\ gpc = "got"
    /\ ~RateLimited(response)
    /\ ~Retryable(response)
    /\ returned' = response
    /\ gpc' = "returned"
    /\ UNCHANGED <<max_retries, retries, response, now, sent, slept, waits, seen, burst>>
    /\ UNCHANGED <<fileVars, procVars, localVars, histVars, reposVars, storeVars, starVars>>

InitGet ==
    /\ MainIdle
    /\ ReposIdle
    /\ gpc = "send"
    /\ max_retries \in 0..MaxRetries
    /\ retries = 0
    /\ response = None
    /\ now = 1
    /\ sent = 0
    /\ returned = None
    /\ slept = NoSleep
    /\ waits = 0
    /\ seen = {}
    /\ burst = 0
    /\ StoreIdle
    /\ StarIdle

NextGet ==
    \/ Send
    \/ SendRaises
    \/ RateLimitWait
    \/ Backoff
    \/ ReturnExhausted
    \/ ReturnOther

SpecGet == InitGet /\ [][NextGet]_vars

----------------------------------------------------------------------------
(* Properties of safe_get.                                                 *)

\* C7: when the last response is a 403 with rate-limit-remaining 0 and the
\* next request is about to be sent, the requester has slept
\* max(reset - now, 0) + 2 seconds, the clock is at or past reset + 2, and
\* retries is 0; a call that saw only such responses and then one that is not
\* retried returns that response, one request sent per response.
C7_RateLimitWait ==
    /\ (gpc = "send" /\ response # None /\ response.status_code = 403
          /\ response.remaining = <<0>>) =>
         /\ retries = 0
         /\ slept.kind = "rate"
         /\ slept.for = Max(slept.reset - slept.from, 0) + 2
         /\ now >= slept.from + slept.for
         /\ now >= slept.reset + 2
         /\ response.reset # <<>> => slept.reset = response.reset[1]
         /\ waits >= 1
    /\ (gpc = "returned" /\ seen = {"exhausted", "other"}) =>
         /\ returned = response
         /\ returned.status_code \notin {403, 500, 502, 503, 504}
         /\ sent = waits + 1
         /\ returned.id = sent

\* more rate-limit waits in one call than max_retries allows retries, then
\* a response that is returned
C7_Witness ==
    /\ gpc = "returned"
    /\ seen = {"exhausted", "other"}
    /\ waits > max_retries + 1
    /\ retries = 0
    /\ slept.kind = "rate"
    /\ slept.reset > slept.from

\* C8 as stated: a call whose responses were all 5xx or 403 without
\* remaining = 0 returns after exactly max_retries requests.
C8_ReturnsAfterMaxRetriesRequests ==
    (gpc = "returned" /\ seen = {"transient"}) => sent = max_retries

\* C8, amended: such a call returns after exactly max_retries + 1 requests
\* (the first attempt and max_retries retries), returns the last response as
\* received, and an exception leaves safe_get only from a request that got
\* no response.
C8_ReturnsAfterMaxRetriesRetries ==
    /\ (gpc = "returned" /\ seen = {"transient"}) =>
         /\ sent = max_retries + 1
         /\ retries = max_retries
         /\ returned = response
         /\ returned.id = sent
    /\ (gpc \in {"send", "got"} /\ seen \subseteq {"transient"}) => sent <= max_retries + 1
    /\ gpc = "raised" => (response = None \/ response.id < sent)

C8_Witness ==
    /\ gpc = "returned"
    /\ seen = {"transient"}
    /\ max_retries = MaxRetries
    /\ sent = MaxRetries + 1
    /\ returned.status_code = 403

----------------------------------------------------------------------------
(* One call of get_user_repos(user_name), page by page.  safe_get is the   *)
(* call that yields each page: a response, or the exception it lets out.   *)

\* params = {"per_page": 100, "page": page}
PerPage == 100

\* the n repositories of page p of a listing
PageItems(p, n) == [i \in 1..n |-> [id |-> (p - 1) * PerPage + i]]

PageBodies(p) ==
    {JList(PageItems(p, n)) : n \in {0, 1, PerPage - 1}}
    \cup (IF p <= MaxFullPages THEN {JList(PageItems(p, PerPage))} ELSE {})
    \cup {RateLimitBody, NotFoundBody, NotJson}

\* if not res or "message" in res: break
NoPage(v) == Falsy(v) \/ In("message", v)

\* the test off by one: a full page ends the listing too
IsLastPage_OrFull(v) == PyLen(v) <= PerPage

\* if len(res) < 100: break
IsLastPage(v) == PyLen(v) < PerPage

\* res = safe_get(url, params=params).json()
RequestPage ==
    /\ rpc = "request"
    /\ \E body \in PageBodies(page) :
         /\ asked' = Append(asked, [per_page |-> PerPage, page |-> page, body |-> body])
         /\ IF body.kind = "notjson"
            THEN rpc' = "raised" /\ UNCHANGED res
            ELSE rpc' = "got" /\ res' = body
    /\ UNCHANGED <<user_name, page, repositories>>
    /\ UNCHANGED <<fileVars, procVars, localVars, histVars, getVars, storeVars, starVars>>

\* requests.get raises inside safe_get; get_user_repos lets it through
RequestRaises ==
    /\ rpc = "request"
    /\ rpc' = "raised"
    /\ asked' = Append(asked, [per_page |-> PerPage, page |-> page, body |-> None])
    /\ UNCHANGED <<user_name, page, res, repositories>>
    /\ UNCHANGED <<fileVars, procVars, localVars, histVars, getVars, storeVars, starVars>>

\* an empty or error-shaped page: break, return repositories
StopAtNoPage ==
    /\ rpc = "got"
    /\ NoPage(res)
    /\ rpc' = "returned"
    /\ UNCHANGED <<user_name, page, res, repositories, asked>>
    /\ UNCHANGED <<fileVars, procVars, localVars, histVars, getVars, storeVars, starVars>>

\* repositories.extend(res), a short page: break, return repositories
TakeLastPage ==
    /\ rpc = "got"
    /\ ~NoPage(res)
    /\ IsLastPage(res)
    /\ repositories' = repositories \o res.items
    /\ rpc' = "returned"
    /\ UNCHANGED <<user_name, page, res, asked>>
    /\ UNCHANGED <<fileVars, procVars, localVars, histVars, getVars, storeVars, starVars>>

\* repositories.extend(res), a full page: page += 1
TakePage ==
    /\ rpc = "got"
    /\ ~NoPage(res)
    /\ ~IsLastPage(res)
    /\ repositories' = repositories \o res.items
    /\ page' = page + 1
    /\ rpc' = "request"
    /\ UNCHANGED <<user_name, res, asked>>
    /\ UNCHANGED <<fileVars, procVars, localVars, histVars, getVars, storeVars, starVars>>

InitRepos ==
    /\ MainIdle
    /\ GetIdle
    /\ rpc = "request"
    /\ user_name \in Users
    /\ page = 1
    /\ res = None
    /\ repositories = <<>>
    /\ asked = <<>>
    /\ StoreIdle
    /\ StarIdle

NextRepos ==
    \/ RequestPage
    \/ RequestRaises
    \/ StopAtNoPage
    \/ TakeLastPage
    \/ TakePage

SpecRepos == InitRepos /\ [][NextRepos]_vars

----------------------------------------------------------------------------
(* Properties of get_user_repos.                                           *)

\* a page that ends the listing
Terminating(v) ==
    \/ v.kind = "list" /\ Len(v.items) < 100
    \/ v.kind = "dict" /\ "message" \in DOMAIN v.d

RECURSIVE Concat(_, _)
\* the items of the first n pages asked for, in page order
Concat(log, n) == IF n = 0 THEN <<>> ELSE Concat(log, n - 1) \o log[n].body.items

\* C10: the pages are asked for as 1, 2, 3, ... with per_page 100; no page
\* is asked for after an empty, error-shaped or short page; the call returns
\* when it gets such a page, and returns the items of the pages before it, in
\* order, followed by the items of that page when it is a short non-empty list.
C10_ReposPagination ==
    /\ \A k \in DOMAIN asked :
         /\ asked[k].page = k
         /\ asked[k].per_page = 100
         /\ k < Len(asked) => (asked[k].body.kind = "list" /\ ~Terminating(asked[k].body))
    /\ rpc = "returned" =>
         LET n == Len(asked)
             last == asked[n].body
         IN  /\ n >= 1
             /\ Terminating(last)
             /\ repositories =
                  IF last.kind = "list" THEN Concat(asked, n) ELSE Concat(asked, n - 1)
    /\ (rpc = "request" /\ asked # <<>>) => ~Terminating(asked[Len(asked)].body)

\* two full pages and a page of one repository: 201 repositories, in order
C10_Witness ==
    /\ rpc = "returned"
    /\ Len(asked) = 3
    /\ Len(repositories) = 2 * PerPage + 1
    /\ \A i \in DOMAIN repositories : repositories[i].id = i

----------------------------------------------------------------------------
(* The checkpoint store as the text of completed_usernames.txt: what       *)
(* load_completed_usernames reads and append_completed_username writes.    *)

\* the longest text the file holds before the first append
MaxText == 4
\* the number of appends to one store
MaxAppends == 2

Chars == {"a", "b", " ", "\n"}

Texts == UNION {[1..n -> Chars] : n \in 0..MaxText}

\* the identifiers __main__ passes: stripped, non-blank lines of usernames.txt
Names == Users \cup {<<"a", "b">>}

RECURSIVE ReadLines(_)
\* for line in file: the lines of a text, each with its "\n" when it has one
ReadLines(text) ==
    IF text = <<>> THEN <<>>
    ELSE LET ends == {i \in DOMAIN text : text[i] = "\n"} \cup {Len(text)}
             n == CHOOSE i \in ends : \A j \in ends : i <= j
         IN  <<SubSeq(text, 1, n)>> \o ReadLines(SubSeq(text, n + 1, Len(text)))

\* os.path.exists(path), and open(path, "r") iterated
Open(f) == [exists |-> f.exists, lines |-> ReadLines(f.text)]

\* open(path, "a").write(s)
Write(f, s) == [exists |-> TRUE, text |-> f.text \o s]

\* completed = load_completed_usernames()
LoadStore ==
    /\ spc \in {"ready", "appended"}
    /\ loaded' = load_completed_usernames(Open(store))
    /\ spc' = "loaded"
    /\ UNCHANGED <<store, loaded_before, appended, appends>>
    /\ UNCHANGED <<fileVars, procVars, localVars, histVars, getVars, reposVars, starVars>>

\* append_completed_username(x): write(completed_username + "\n")
AppendToStore ==
    /\ spc = "loaded"
    /\ appends < MaxAppends
    /\ \E x \in Names :
         /\ store' = Write(store, x \o <<"\n">>)
         /\ appended' = x
    /\ loaded_before' = loaded
    /\ appends' = appends + 1
    /\ spc' = "appended"
    /\ UNCHANGED loaded
    /\ UNCHANGED <<fileVars, procVars, localVars, histVars, getVars, reposVars, starVars>>

InitStore ==
    /\ MainIdle
    /\ GetIdle
    /\ ReposIdle
    /\ StarIdle
    /\ spc = "ready"
    /\ store \in {[exists |-> FALSE, text |-> <<>>]}
                 \cup {[exists |-> TRUE, text |-> t] : t \in Texts}
    /\ loaded = {}
    /\ loaded_before = {}
    /\ appended = <<>>
    /\ appends = 0

NextStore ==
    \/ LoadStore
    \/ AppendToStore

SpecStore == InitStore /\ [][NextStore]_vars

----------------------------------------------------------------------------
(* Properties of the checkpoint store.                                     *)

\* the non-blank lines of a text without their leading and trailing
\* whitespace: the pieces that start and end with a visible character, hold
\* no line break, and have only blanks between them and the line breaks (or
\* the ends of the text) around them
TrimmedLines(text) ==
    {SubSeq(text, p[1], p[2]) : p \in
        {q \in (DOMAIN text) \X (DOMAIN text) :
            /\ q[1] <= q[2]
            /\ text[q[1]] \notin {" ", "\n"}
            /\ text[q[2]] \notin {" ", "\n"}
            /\ \A k \in q[1]..q[2] : text[k] # "\n"
            /\ \A k \in 1..(q[1] - 1) :
                 (\A m \in k..(q[1] - 1) : text[m] # "\n") => text[k] = " "
            /\ \A k \in (q[2] + 1)..Len(text) :
                 (\A m \in (q[2] + 1)..k : text[m] # "\n") => text[k] = " "}}

\* C11 as stated: load returns the set of trimmed non-blank lines of the
\* checkpoint file, the empty set when the file is absent; and a load after
\* append_completed_username(x) returns the set loaded before the append
\* united with {x}, whatever the store held.
C11_LoadAppendRoundTrip ==
    /\ spc = "loaded" =>
         loaded = IF store.exists THEN TrimmedLines(store.text) ELSE {}
    /\ (spc = "loaded" /\ appends > 0) => loaded = loaded_before \cup {appended}

\* the text the store held before the last append
TextBefore == SubSeq(store.text, 1, Len(store.text) - Len(appended) - 1)

\* absent, empty, or ending with a line break
Terminated(text) == text = <<>> \/ text[Len(text)] = "\n"

\* C11, amended: the load is as stated; the load after
\* append_completed_username(x) is the set loaded before united with {x} when
\* the store was absent, empty or ended with a line break before the append.
C11_RoundTripOnTerminatedStore ==
    /\ spc = "loaded" =>
         loaded = IF store.exists THEN TrimmedLines(store.text) ELSE {}
    /\ (spc = "loaded" /\ appends > 0 /\ Terminated(TextBefore)) =>
         loaded = loaded_before \cup {appended}

\* a store with a padded line and a blank line, then b appended
C11_Witness ==
    /\ spc = "loaded"
    /\ appends = 1
    /\ TextBefore = <<" ", "a", "\n", "\n">>
    /\ appended = <<"b">>
    /\ loaded_before = {<<"a">>}
    /\ loaded = {<<"a">>, <<"b">>}

----------------------------------------------------------------------------
(* One call of get_starred_repos_count(user).                              *)

\* the page numbers a link carries
LinkPages == {1, 3, 42}

LinkValues(rel) == [query : Queries, page : LinkPages, rel : {rel}]

\* the links of a Link header: none, one, or a next and a last link
LinkHeaders ==
    {<<>>}
    \cup {<<l>> : l \in LinkValues("next") \cup LinkValues("last")}
    \cup {<<n, l>> : n \in LinkValues("next"), l \in LinkValues("last")}

\* the bodies of a page of size 1, and of an error
StarredBodies == {JList(<<>>), JList(<<[id |-> 1]>>), RateLimitBody, NotJson}

\* res = safe_get(url, params={"per_page": 1}), and what is made of it
CountStarred ==
    /\ tpc = "call"
    /\ sasked' = Append(sasked, [user |-> user, per_page |-> 1])
    /\ \E links \in LinkHeaders, body \in StarredBodies :
         /\ slinks' = links
         /\ sres' = Resp(IF In("message", body) THEN 403 ELSE 200, LinkText(links), body)
    /\ IF StarredRaises(sres')
       THEN tpc' = "raised" /\ UNCHANGED starred
       ELSE tpc' = "returned" /\ starred' = get_starred_repos_count(sres')
    /\ UNCHANGED user
    /\ UNCHANGED <<fileVars, procVars, localVars, histVars, getVars, reposVars, storeVars>>

\* requests.get raises inside safe_get; get_starred_repos_count lets it through
CountStarredRaises ==
    /\ tpc = "call"
    /\ sasked' = Append(sasked, [user |-> user, per_page |-> 1])
    /\ tpc' = "raised"
    /\ UNCHANGED <<user, sres, starred, slinks>>
    /\ UNCHANGED <<fileVars, procVars, localVars, histVars, getVars, reposVars, storeVars>>

InitStarred ==
    /\ MainIdle
    /\ GetIdle
    /\ ReposIdle
    /\ StoreIdle
    /\ tpc = "call"
    /\ user \in Users
    /\ sres = None
    /\ starred = 0
    /\ sasked = <<>>
    /\ slinks = <<>>

NextStarred ==
    \/ CountStarred
    \/ CountStarredRaises

SpecStarred == InitStarred /\ [][NextStarred]_vars

----------------------------------------------------------------------------
(* Properties of get_starred_repos_count.                                  *)

\* C12: the call issues one request with page size 1; when the Link header
\* has a link tagged rel="last" the call returns the page number of that
\* link, otherwise the length of the body.
C12_StarredCount ==
    tpc = "returned" =>
      /\ sasked = <<[user |-> user, per_page |-> 1]>>
      /\ IF \E i \in DOMAIN slinks : slinks[i].rel = "last"
         THEN \E i \in DOMAIN slinks : slinks[i].rel = "last" /\ starred = slinks[i].page
         ELSE starred = PyLen(sres.body)

----------------------------------------------------------------------------
(* Properties of the batch loop: the files, the order, the end of a run.   *)

\* file' is file with one line added at its end
OneLineAdded(old, new) ==
    /\ new.exists
    /\ Len(new.lines) = Len(old.lines) + 1
    /\ SubSeq(new.lines, 1, Len(old.lines)) = old.lines

\* C13: every step leaves the lines of the checkpoint file and of the output
\* file as they were or adds exactly one line at the end, an identifier of
\* the input list to the checkpoint file and one record to the output file;
\* no step changes the input list.
C13_AppendOnly ==
    [][/\ \/ checkpoint_file' = checkpoint_file
          \/ /\ OneLineAdded(checkpoint_file, checkpoint_file')
             /\ checkpoint_file'.lines[Len(checkpoint_file'.lines)] \in Range(usernames)
       /\ \/ output_file' = output_file
          \/ /\ OneLineAdded(output_file, output_file')
             /\ output_file'.lines[Len(output_file'.lines)].json.username \in Range(usernames)
       /\ usernames_file' = usernames_file]_vars

\* both files got a line in an earlier run and another one in this run
C13_Witness ==
    /\ runs = 2
    /\ mark.runCk >= 1 /\ RunCheckpoints # <<>>
    /\ mark.runOut >= 1 /\ RunRecords # <<>>

----------------------------------------------------------------------------
(* Properties of safe_get: what is returned, and when.                     *)

\* C14: a response whose status is neither 403 nor 500, 502, 503, 504 is
\* returned by the next step, as received, with no sleep and no request in
\* between; a returned value is always the last response received; and the
\* call ends with an exception only when its last request got no response.
C14_OtherStatusReturnsAtOnce ==
    /\ [](/\ gpc = "returned" => (returned = response /\ returned.id = sent)
          /\ gpc = "raised" => (response = None \/ response.id < sent))
    /\ [][(gpc = "got" /\ response.status_code \notin {403, 500, 502, 503, 504}) =>
            /\ gpc' = "returned"
            /\ returned' = response
            /\ now' = now
            /\ slept' = slept
            /\ sent' = sent]_vars

\* a 404 that came after a retried response is returned as it is
C14_Witness ==
    /\ gpc = "returned"
    /\ returned.status_code = 404
    /\ returned.id = sent
    /\ sent >= 2
    /\ retries >= 1

\* the seven fetches of one identifier, in the order of the loop body
SevenFetches(u) ==
    << <<u, "profile">>, <<u, "repos">>, <<u, "starred">>, <<u, "orgs">>,
       <<u, "pr">>, <<u, "issue">>, <<u, "commit">> >>

\* C15: the checkpoint line of a Completed identifier is appended from the
\* point where the seven fetches of that identifier have returned and its
\* record, and nothing else, has been appended in the iteration; the record is
\* appended while the iteration has no checkpoint line; once the identifier is
\* Completed the iteration has added that one record and then that one
\* checkpoint line, both its own.
C15_RecordBeforeCheckpoint ==
    /\ [](/\ pc = "checkpoint" =>
               /\ requests = SevenFetches(username)
               /\ Len(IterRecords) = 1
               /\ IterRecords[1].json.username = username
               /\ IterCheckpoints = <<>>
          /\ (pc \in {"loop", "done"} /\ idx > 1 /\ status[idx - 1] = "Completed") =>
               /\ requests = SevenFetches(usernames[idx - 1])
               /\ Len(IterRecords) = 1
               /\ IterRecords[1].json.username = usernames[idx - 1]
               /\ IterCheckpoints = <<usernames[idx - 1]>>)
    /\ [][/\ (checkpoint_file' # checkpoint_file /\ status'[idx] = "Completed") =>
               /\ pc = "checkpoint"
               /\ output_file' = output_file
          /\ output_file' # output_file =>
               /\ IterCheckpoints = <<>>
               /\ checkpoint_file' = checkpoint_file
               /\ pc' = "checkpoint"]_vars

\* an identifier has just ended Completed and the next one is still to come
C15_Witness ==
    /\ pc = "loop"
    /\ idx > 1
    /\ idx <= Len(usernames)
    /\ status[idx - 1] = "Completed"
    /\ requests = SevenFetches(usernames[idx - 1])
    /\ IterCheckpoints = <<usernames[idx - 1]>>
    /\ Len(IterRecords) = 1

\* C16: when a run has ended without being killed, every identifier of the
\* input list is in one of the terminal states Skipped, NotFound, Completed,
\* Failed, and the checkpoint set is the set loaded at startup united with the
\* identifiers that ended NotFound or Completed.
C16_EveryIdentifierSettles ==
    pc \in {"done", "aborted"} =>
      /\ \A i \in DOMAIN usernames :
           status[i] \in {"Skipped", "NotFound", "Completed", "Failed"}
      /\ load_completed_usernames(checkpoint_file) =
           completed \cup {usernames[i] : i \in {j \in DOMAIN usernames :
                                                   status[j] \in {"NotFound", "Completed"}}}

RECURSIVE IsSubseq(_, _)
\* s is t with some elements left out
IsSubseq(s, t) ==
    IF s = <<>> THEN TRUE
    ELSE IF t = <<>> THEN FALSE
    ELSE IF Head(s) = Head(t) THEN IsSubseq(Tail(s), Tail(t))
    ELSE IsSubseq(s, Tail(t))

\* the part of the input list the loop has reached
Reached == SubSeq(usernames, 1, IF idx <= Len(usernames) THEN idx ELSE Len(usernames))

\* C17: within a run the identifiers whose profile was fetched, the
\* identifiers of the records appended and the identifiers appended to the
\* checkpoint file are each a subsequence of the input list, up to the
\* identifier the loop stands at; the requests of an iteration are all for
\* one identifier.
C17_InputOrder ==
    runs >= 1 =>
      /\ IsSubseq(fetched, Reached)
      /\ IsSubseq([k \in DOMAIN RunRecords |-> RunRecords[k].json.username], Reached)
      /\ IsSubseq(RunCheckpoints, Reached)
      /\ \A k \in DOMAIN requests : requests[k][1] = requests[1][1]

\* the list b, a: both processed, in that order
C17_Witness ==
    /\ pc = "done"
    /\ usernames = << <<"b">>, <<"a">> >>
    /\ fetched = << <<"b">>, <<"a">> >>
    /\ RunCheckpoints = << <<"b">>, <<"a">> >>
    /\ Len(RunRecords) = 2
    /\ RunRecords[1].json.username = <<"b">>

\* C18: no run appends to the checkpoint file an identifier the file already
\* holds: the lines a run has appended are not in the set loaded at its start
\* and no two of them are equal.
C18_NoDuplicateCheckpoint ==
    runs >= 1 =>
      \A k \in DOMAIN RunCheckpoints :
        /\ RunCheckpoints[k] \notin completed
        /\ \A j \in 1..(k - 1) : RunCheckpoints[j] # RunCheckpoints[k]

----------------------------------------------------------------------------
(* One call of safe_get against a server that reports the rate limit as    *)
(* used up finitely often.  Each step of the call is taken in the end: a    *)
(* sleep ends, and requests.get returns or raises within its timeout.       *)

\* the number of rate-limit-exhausted responses the server sends in one call
MaxExhausted == 2

\* one status of each kind: returned at once, retried, rate-limited or retried
LiveStatuses == {200, 403, 503}

\* response = requests.get(...), with the exhausted responses running out
SendWhileLimited ==
    /\ gpc = "send"
    /\ \E r \in GetResponses(now, sent + 1) :
         /\ r.status_code \in LiveStatuses
         /\ RateLimited(r) => waits < MaxExhausted
         /\ response' = r
         /\ seen' = seen \cup {Class(r)}
    /\ sent' = sent + 1
    /\ burst' = burst + 1
    /\ gpc' = "got"
    /\ UNCHANGED <<max_retries, retries, now, returned, slept, waits>>
    /\ UNCHANGED <<fileVars, procVars, localVars, histVars, reposVars, storeVars, starVars>>

NextGetLive ==
    \/ SendWhileLimited
    \/ SendRaises
    \/ RateLimitWait
    \/ Backoff
    \/ ReturnExhausted
    \/ ReturnOther

SpecGetLive == InitGet /\ [][NextGetLive]_vars /\ WF_vars(NextGetLive)

\* C19: with finitely many rate-limit-exhausted responses the call ends (it
\* returns, or requests.get raised); and it never sends more than
\* max_retries + 1 requests since the call began or since its last
\* rate-limit wait.
C19_SafeGetTerminates ==
    /\ [](burst <= max_retries + 1)
    /\ <>(gpc \in {"returned", "raised"})

\* the call returned after all the rate-limit waits and a full round of retries
C19_Witness ==
    /\ gpc = "returned"
    /\ waits = MaxExhausted
    /\ max_retries = MaxRetries
    /\ burst = max_retries + 1
    /\ sent > burst

----------------------------------------------------------------------------
(* Properties of a run that follows a finished run.                        *)

\* C20: in a run started after a run in which every identifier ended
\* Skipped, NotFound or Completed, no request is issued and nothing is
\* appended to the checkpoint file or the output file, and every identifier
\* the loop has passed was skipped.
C20_RerunDoesNothing ==
    prevSettled =>
      /\ fetched = <<>>
      /\ requests = <<>>
      /\ RunCheckpoints = <<>>
      /\ RunRecords = <<>>
      /\ \A i \in DOMAIN usernames : i < idx => status[i] = "Skipped"
      /\ pc \in {"loop", "done", "start"}

\* the second run on a list of two identifiers, of which the first run
\* completed one and found the other missing, has ended
C20_Witness ==
    /\ prevSettled
    /\ runs = 2
    /\ pc = "done"
    /\ Len(usernames) = 2
    /\ status = <<"Skipped", "Skipped">>
    /\ checkpoint_file.lines = usernames
    /\ Len(output_file.lines) = 1

=============================================================================
